---- MODULE Spec2Model ----
(***************************************************************************)
(* Ledgit: the sheet store (useSheetStore), its undo/redo history, the     *)
(* auto-save timer (useAutoSave), the keyboard shortcuts and the file      *)
(* watcher (useFileWatcher), as one state machine; beside it the repo      *)
(* store (useRepoStore), the diff service (compareCsv), the merge         *)
(* resolver (MergeResolver, ConflictCell), the git calls of the auto-save  *)
(* hook and the diff store (useDiffStore) with the effect of DiffViewer,   *)
(* each with its own variables.                                            *)
(*                                                                         *)
(* JavaScript arrays are 0-based; the sequences here are 1-based, so a     *)
(* JavaScript index i is position i + 1.                                   *)
(***************************************************************************)
EXTENDS Integers, Sequences, FiniteSets, TLC

\* ------------------------------------------------------------------ values

\* useSheetStore.ts: const MAX_UNDO = 100
MAX_UNDO == 100

\* null (filePath, lastSavedAt)
Null == "<null>"
\* undefined as an element of an array (a hole splice() has filled)
Undef == "<undefined>"
\* a property an object does not have (reading it gives undefined)
Absent == "<absent>"

Min(a, b) == IF a < b THEN a ELSE b
Max(a, b) == IF a > b THEN a ELSE b

\* The column identifiers and cell texts the model draws from.
Fields == {"a", "b"}
Vals == {"x", "y"}
Files == {"f1.csv", "f2.csv"}

\* Property names of a row object: the fields, and "undefined", the name
\* JavaScript gives a property whose key is the value undefined.
Keys == Fields \cup {"undefined"}

\* A Row (Record<string, any>) is a function from Keys to its values, Absent
\* where the object has no such property.  An undefined array element is
\* UndefRow.  A Column is a record of its field and header_name (col_type is
\* never read or written by the store and is left out).
EmptyObj == [k \in Keys |-> Absent]
UndefRow == [k \in Keys |-> Undef]
EmptyCol == [field |-> Absent, header_name |-> Absent]
UndefCol == [field |-> Undef, header_name |-> Undef]

\* { ...r }
SpreadRow(r) == IF r = UndefRow THEN EmptyObj ELSE r
\* { ...c }
SpreadCol(c) == IF c = UndefCol THEN EmptyCol ELSE c
\* the property name a value used as a key turns into
KeyOf(f) == IF f = Absent THEN "undefined" ELSE f

\* Array.prototype.splice: the start index as the array clamps it
ClampStart(start, len) ==
  IF start < 0 THEN Max(len + start, 0) ELSE Min(start, len)

\* arr.splice(start, 0, item): the array afterwards
SpliceInsert(arr, start, item) ==
  LET k == ClampStart(start, Len(arr))
  IN SubSeq(arr, 1, k) \o <<item>> \o SubSeq(arr, k + 1, Len(arr))

\* arr.splice(start, 1): the array afterwards
SpliceRemove(arr, start) ==
  LET k == ClampStart(start, Len(arr))
  IN IF k < Len(arr)
       THEN SubSeq(arr, 1, k) \o SubSeq(arr, k + 2, Len(arr))
       ELSE arr

\* const [moved] = arr.splice(start, 1): the element removed, undef if none
SpliceRemoved(arr, start, undef) ==
  LET k == ClampStart(start, Len(arr))
  IN IF k < Len(arr) THEN arr[k + 1] ELSE undef

\* arr.filter((_, i) => i !== index)
FilterIndex(arr, index) ==
  IF index >= 0 /\ index < Len(arr)
    THEN SubSeq(arr, 1, index) \o SubSeq(arr, index + 2, Len(arr))
    ELSE arr

\* arr.filter(c => c != null)
RECURSIVE FilterNotNull(_, _)
FilterNotNull(arr, undef) ==
  IF arr = <<>> THEN <<>>
  ELSE IF Head(arr) # undef
         THEN <<Head(arr)>> \o FilterNotNull(Tail(arr), undef)
         ELSE FilterNotNull(Tail(arr), undef)

\* ------------------------------------------------------------------ state

VARIABLES
  columns, rows, filePath,     \* SheetState: the table and the open file
  isDirty, isSaving, lastSavedAt,
  undoStack, redoStack,
  timers,                      \* useAutoSave: the pending setTimeout calls, oldest
                               \* first, each with the time since it was made
  timerRef,                    \* timerRef.current: null, a pending timer (the
                               \* newest), or one that has fired
  reads, writes,               \* readCsv / writeCsv calls in flight
  last,                        \* the handler that ran last
  used,                        \* how many calls the environment has made
  synced,                      \* the table last read by loadFile or written by save
  run, s0, s1,                 \* a run of edits, undos and redos; the table it
                               \* started from and the table after its first edit
  quiet                        \* the time since the latest edit, undo or redo

current == [columns |-> columns, rows |-> rows]
storeVars ==
  <<columns, rows, filePath, isDirty, isSaving, lastSavedAt, undoStack, redoStack>>
progVars == <<storeVars, timers, timerRef, reads, writes>>
\* a setTimeout of useAutoSave is pending
timerPending == timers # <<>>
ghostVars == <<last, used, synced, run, s0, s1, quiet>>

VARIABLES
  recentRepos, repoInfo, isOpen,  \* RepoState: the recent list, the open repository
  localStorage,                   \* the item ledgit_recent_repos of localStorage:
                                  \* <<>> when there is none, else <<the list>>
  opens,                          \* repoIpc.openRepo / repoIpc.init calls in flight
  opened                          \* the path of the latest call that succeeded

repoVars == <<recentRepos, repoInfo, isOpen, localStorage, opens, opened>>

VARIABLES
  alignment,       \* compareCsv: what compareTables(tableA, tableB).align() found
  highlightData,   \* the highlight table read back into resultData
  structuredDiff,  \* the StructuredDiff extracted from it
  summary          \* and its summary, as the list of the parts ', ' joins

diffVars == <<alignment, highlightData, structuredDiff, summary>>

VARIABLES
  theirsRows, oursRows,  \* MergeResolver: the two sides, parsed
  mergedRows,            \* the working table
  baseRows,              \* the common ancestor the two sides were merged over
  resolves,              \* handleResolveAndCommit calls waiting at an await
  ipcLog                 \* what the resolver has asked of git and of its parent

mergeVars == <<theirsRows, oursRows, mergedRows, baseRows, resolves, ipcLog>>

VARIABLES
  writers,    \* useAutoSave: for each write in flight, who awaits save()
  gitCalls    \* the gitIpc calls made once a save has settled

autoVars == <<writers, gitCalls>>

VARIABLES
  isCompareMode, fromCommit, toCommit,  \* DiffState: the selection
  diffResult,   \* <<>> for null, else <<the commits the diff was made of>>
  isLoading,
  computes,     \* computeDiff calls waiting for gitIpc.showFile
  deps          \* DiffViewer: the dependencies its effect ran with last,
                \* <<>> while the viewer is not mounted

diffState == <<isCompareMode, fromCommit, toCommit, diffResult, isLoading, computes>>
pickVars == <<diffState, deps>>

\* the state of the components other than the sheet store
otherVars == <<repoVars, diffVars, mergeVars, autoVars, pickVars>>

vars == <<progVars, ghostVars, otherVars>>

\* ------------------------------------------------------------------ store

\* takeSnapshot: columns.map(c => ({...c})), rows.map(r => ({...r}))
takeSnapshot(cols, rws) ==
  [columns |-> [i \in 1..Len(cols) |-> SpreadCol(cols[i])],
   rows |-> [i \in 1..Len(rws) |-> SpreadRow(rws[i])]]

\* the push without the slice: the stack grows without bound
PushUndoNoSlice(stack, snapshot) == Append(stack, snapshot)

\* the push with slice(-(MAX_UNDO - 1)): one snapshot too few is kept
PushUndoOffByOne(stack, snapshot) ==
  LET all == Append(stack, snapshot)
  IN IF Len(all) > MAX_UNDO - 1
       THEN SubSeq(all, Len(all) - MAX_UNDO + 2, Len(all))
       ELSE all

\* the push with slice(0, MAX_UNDO): the newest snapshot is dropped
PushUndoDropNewest(stack, snapshot) ==
  LET all == Append(stack, snapshot)
  IN IF Len(all) > MAX_UNDO THEN SubSeq(all, 1, MAX_UNDO) ELSE all

\* [...undoStack, snapshot].slice(-MAX_UNDO)
PushUndo(stack, snapshot) ==
  LET all == Append(stack, snapshot)
  IN IF Len(all) > MAX_UNDO
       THEN SubSeq(all, Len(all) - MAX_UNDO + 1, Len(all))
       ELSE all

\* the subscriber that arms a timer only when the store turns dirty
SubscriberOnDirtyEdge(ts, ref) ==
  IF isDirty' /\ ~isDirty /\ filePath' # Null
    THEN /\ timers' = Append(IF ref = "pending"
                               THEN SubSeq(ts, 1, Len(ts) - 1) ELSE ts, 0)
         /\ timerRef' = "pending"
    ELSE /\ timers' = ts
         /\ timerRef' = ref

\* the subscriber that arms a new timer without clearing the pending one
SubscriberNoClear(ts, ref) ==
  IF isDirty' /\ filePath' # Null
    THEN /\ timers' = Append(ts, 0)
         /\ timerRef' = "pending"
    ELSE /\ timers' = ts
         /\ timerRef' = ref

\* useAutoSave's store subscriber, run by every set(), with the timers ts
\* pending and timerRef.current = ref: with the store dirty and a file open
\* it clears the timer timerRef.current names (clearTimeout of a timer that
\* has fired does nothing) and arms a new one
Subscriber(ts, ref) ==
  IF isDirty' /\ filePath' # Null
    THEN /\ timers' = Append(IF ref = "pending"
                               THEN SubSeq(ts, 1, Len(ts) - 1) ELSE ts, 0)
         /\ timerRef' = "pending"
    ELSE /\ timers' = ts
         /\ timerRef' = ref

\* the edit with the snapshot taken after the change instead of before it
CommitEditSnapshotAfter(newColumns, newRows) ==
  /\ columns' = newColumns
  /\ rows' = newRows
  /\ isDirty' = TRUE
  /\ undoStack' = PushUndo(undoStack, takeSnapshot(newColumns, newRows))
  /\ redoStack' = <<>>
  /\ UNCHANGED <<filePath, isSaving, lastSavedAt, reads, writes>>
  /\ Subscriber(timers, timerRef)

\* the edit that leaves the redo stack as it is
CommitEditKeepsRedo(newColumns, newRows) ==
  /\ columns' = newColumns
  /\ rows' = newRows
  /\ isDirty' = TRUE
  /\ undoStack' = PushUndo(undoStack, takeSnapshot(columns, rows))
  /\ UNCHANGED <<redoStack, filePath, isSaving, lastSavedAt, reads, writes>>
  /\ Subscriber(timers, timerRef)

\* the part of every edit after it has computed the new table
CommitEdit(newColumns, newRows) ==
  /\ columns' = newColumns
  /\ rows' = newRows
  /\ isDirty' = TRUE
  /\ undoStack' = PushUndo(undoStack, takeSnapshot(columns, rows))
  /\ redoStack' = <<>>
  /\ UNCHANGED <<filePath, isSaving, lastSavedAt, reads, writes>>
  /\ Subscriber(timers, timerRef)

\* a call that returns, or throws, before it reaches set()
NoSet == UNCHANGED progVars

\* an updateCell that builds the row anew instead of spreading the old one
updateCellNoSpread(rowIndex, field, value) ==
  CommitEdit(columns,
             [i \in 1..Len(rows) |->
                IF i - 1 = rowIndex
                  THEN [EmptyObj EXCEPT ![field] = value]
                  ELSE rows[i]])

updateCell(rowIndex, field, value) ==
  CommitEdit(columns,
             [i \in 1..Len(rows) |->
                IF i - 1 = rowIndex
                  THEN [SpreadRow(rows[i]) EXCEPT ![field] = value]
                  ELSE rows[i]])

\* for (const col of columns): col.field throws on an undefined element
HasUndefCol == \E i \in 1..Len(columns) : columns[i] = UndefCol

\* addRow's emptyRow: '' under the field of every column
emptyRow ==
  [k \in Keys |->
     IF \E i \in 1..Len(columns) : KeyOf(columns[i].field) = k
       THEN "" ELSE Absent]

\* atIndex is <<>> when the argument is omitted, <<i>> otherwise
addRow(atIndex) ==
  IF HasUndefCol THEN NoSet
  ELSE LET idx == IF atIndex = <<>> THEN Len(rows) ELSE atIndex[1]
       IN CommitEdit(columns, SpliceInsert(rows, idx, emptyRow))

removeRow(rowIndex) ==
  CommitEdit(columns, FilterIndex(rows, rowIndex))

moveRow(fromIndex, toIndex) ==
  IF fromIndex = toIndex THEN NoSet
  ELSE CommitEdit(columns,
                  SpliceInsert(SpliceRemove(rows, fromIndex), toIndex,
                               SpliceRemoved(rows, fromIndex, UndefRow)))

\* column.field throws when column is undefined; callers pass an object
addColumn(column, atIndex) ==
  LET idx == IF atIndex = <<>> THEN Len(columns) ELSE atIndex[1]
  IN CommitEdit(SpliceInsert(columns, idx, column),
                [i \in 1..Len(rows) |->
                   [SpreadRow(rows[i]) EXCEPT ![KeyOf(column.field)] = ""]])

moveColumn(fromIndex, toIndex) ==
  IF fromIndex = toIndex THEN NoSet
  ELSE CommitEdit(SpliceInsert(SpliceRemove(columns, fromIndex), toIndex,
                               SpliceRemoved(columns, fromIndex, UndefCol)),
                  rows)

\* new Map(columns.map(c => [c.field, c])).get(f): the last column of field f
ColOfField(f) ==
  LET hits == {i \in 1..Len(columns) : columns[i].field = f}
  IN IF hits = {} THEN UndefCol
     ELSE columns[CHOOSE i \in hits : \A j \in hits : j <= i]

\* fieldOrder.map(f => colMap.get(f)).filter(c => c != null)
ReorderedColumns(fieldOrder) ==
  FilterNotNull([i \in 1..Len(fieldOrder) |-> ColOfField(fieldOrder[i])], UndefCol)

\* JSON.stringify of an array of strings, an undefined element printed null
JSONStringify(arr) ==
  [i \in 1..Len(arr) |->
     IF arr[i] \in {Absent, Undef} THEN <<"null">> ELSE <<"string", arr[i]>>]

reorderColumns(fieldOrder) ==
  IF HasUndefCol THEN NoSet
  ELSE IF Len(ReorderedColumns(fieldOrder)) # Len(columns) THEN NoSet
  ELSE IF JSONStringify(fieldOrder)
            = JSONStringify([i \in 1..Len(columns) |-> columns[i].field])
    THEN NoSet
  ELSE CommitEdit(ReorderedColumns(fieldOrder), rows)

\* columns.filter(c => c.field !== field)
RECURSIVE WithoutField(_, _)
WithoutField(cols, field) ==
  IF cols = <<>> THEN <<>>
  ELSE IF Head(cols).field # field
         THEN <<Head(cols)>> \o WithoutField(Tail(cols), field)
         ELSE WithoutField(Tail(cols), field)

removeColumn(field) ==
  IF HasUndefCol THEN NoSet
  ELSE CommitEdit(WithoutField(columns, field),
                  [i \in 1..Len(rows) |->
                     [SpreadRow(rows[i]) EXCEPT ![field] = Absent]])

clearFile ==
  /\ columns' = <<>>
  /\ rows' = <<>>
  /\ filePath' = Null
  /\ isDirty' = FALSE
  /\ undoStack' = <<>>
  /\ redoStack' = <<>>
  /\ UNCHANGED <<isSaving, lastSavedAt, reads, writes>>
  /\ Subscriber(timers, timerRef)

\* undo that marks the store dirty before it looks at the stack
undoDirtyFirst ==
  IF Len(undoStack) = 0
    THEN /\ isDirty' = TRUE
         /\ UNCHANGED <<columns, rows, filePath, isSaving, lastSavedAt,
                        undoStack, redoStack, reads, writes>>
         /\ Subscriber(timers, timerRef)
  ELSE /\ columns' = undoStack[Len(undoStack)].columns
       /\ rows' = undoStack[Len(undoStack)].rows
       /\ isDirty' = TRUE
       /\ undoStack' = SubSeq(undoStack, 1, Len(undoStack) - 1)
       /\ redoStack' = Append(redoStack, takeSnapshot(columns, rows))
       /\ UNCHANGED <<filePath, isSaving, lastSavedAt, reads, writes>>
       /\ Subscriber(timers, timerRef)

\* undo that restores the table without marking the store dirty
undoKeepsClean ==
  IF Len(undoStack) = 0 THEN NoSet
  ELSE /\ columns' = undoStack[Len(undoStack)].columns
       /\ rows' = undoStack[Len(undoStack)].rows
       /\ undoStack' = SubSeq(undoStack, 1, Len(undoStack) - 1)
       /\ redoStack' = Append(redoStack, takeSnapshot(columns, rows))
       /\ UNCHANGED <<isDirty, filePath, isSaving, lastSavedAt, reads, writes>>
       /\ Subscriber(timers, timerRef)

undo ==
  IF Len(undoStack) = 0 THEN NoSet
  ELSE /\ columns' = undoStack[Len(undoStack)].columns
       /\ rows' = undoStack[Len(undoStack)].rows
       /\ isDirty' = TRUE
       /\ undoStack' = SubSeq(undoStack, 1, Len(undoStack) - 1)
       /\ redoStack' = Append(redoStack, takeSnapshot(columns, rows))
       /\ UNCHANGED <<filePath, isSaving, lastSavedAt, reads, writes>>
       /\ Subscriber(timers, timerRef)

\* redo that leaves the snapshot it restores on the redo stack
redoKeepsEntry ==
  IF Len(redoStack) = 0 THEN NoSet
  ELSE /\ columns' = redoStack[Len(redoStack)].columns
       /\ rows' = redoStack[Len(redoStack)].rows
       /\ isDirty' = TRUE
       /\ undoStack' = Append(undoStack, takeSnapshot(columns, rows))
       /\ UNCHANGED <<redoStack, filePath, isSaving, lastSavedAt, reads, writes>>
       /\ Subscriber(timers, timerRef)

redo ==
  IF Len(redoStack) = 0 THEN NoSet
  ELSE /\ columns' = redoStack[Len(redoStack)].columns
       /\ rows' = redoStack[Len(redoStack)].rows
       /\ isDirty' = TRUE
       /\ redoStack' = SubSeq(redoStack, 1, Len(redoStack) - 1)
       /\ undoStack' = Append(undoStack, takeSnapshot(columns, rows))
       /\ UNCHANGED <<filePath, isSaving, lastSavedAt, reads, writes>>
       /\ Subscriber(timers, timerRef)

\* save() without the test of filePath
saveNoGuard(ts, ref) ==
  /\ isSaving' = TRUE
  /\ writes' = Append(writes, [path |-> filePath, columns |-> columns, rows |-> rows])
  /\ UNCHANGED <<columns, rows, filePath, isDirty, lastSavedAt,
                 undoStack, redoStack, reads>>
  /\ Subscriber(ts, ref)

\* save(), called with the timers ts pending and timerRef.current = ref
save(ts, ref) ==
  IF filePath = Null THEN /\ UNCHANGED <<storeVars, reads, writes>>
                          /\ timers' = ts
                          /\ timerRef' = ref
  ELSE /\ isSaving' = TRUE
       /\ writes' = Append(writes, [path |-> filePath, columns |-> columns, rows |-> rows])
       /\ UNCHANGED <<columns, rows, filePath, isDirty, lastSavedAt,
                      undoStack, redoStack, reads>>
       /\ Subscriber(ts, ref)

\* the element at position i taken out of a sequence
RemoveAt(arr, i) == SubSeq(arr, 1, i - 1) \o SubSeq(arr, i + 1, Len(arr))

\* save() after await writeCsv resolved
writeOk(i) ==
  /\ isDirty' = FALSE
  /\ isSaving' = FALSE
  /\ lastSavedAt' = "Date"
  /\ writes' = RemoveAt(writes, i)
  /\ UNCHANGED <<columns, rows, filePath, undoStack, redoStack, reads>>
  /\ Subscriber(timers, timerRef)

\* the catch block that clears the dirty flag as a successful save does
writeFailClearsDirty(i) ==
  /\ isDirty' = FALSE
  /\ isSaving' = FALSE
  /\ writes' = RemoveAt(writes, i)
  /\ UNCHANGED <<columns, rows, filePath, lastSavedAt, undoStack, redoStack, reads>>
  /\ Subscriber(timers, timerRef)

\* save() after await writeCsv rejected: the catch block
writeFail(i) ==
  /\ isSaving' = FALSE
  /\ writes' = RemoveAt(writes, i)
  /\ UNCHANGED <<columns, rows, filePath, isDirty, lastSavedAt,
                 undoStack, redoStack, reads>>
  /\ Subscriber(timers, timerRef)

\* loadFile up to its await: readCsv is called; by names the caller
loadFile(path, by) ==
  /\ reads' = Append(reads, [path |-> path, by |-> by])
  /\ UNCHANGED <<storeVars, timers, timerRef, writes>>

\* the load that keeps the history of the file open before
readOkKeepsHistory(i, data) ==
  /\ columns' = data.columns
  /\ rows' = data.rows
  /\ filePath' = reads[i].path
  /\ isDirty' = FALSE
  /\ reads' = RemoveAt(reads, i)
  /\ UNCHANGED <<undoStack, redoStack, isSaving, lastSavedAt, writes>>
  /\ Subscriber(timers, timerRef)

\* loadFile after await readCsv resolved with data
readOk(i, data) ==
  /\ columns' = data.columns
  /\ rows' = data.rows
  /\ filePath' = reads[i].path
  /\ isDirty' = FALSE
  /\ undoStack' = <<>>
  /\ redoStack' = <<>>
  /\ reads' = RemoveAt(reads, i)
  /\ UNCHANGED <<isSaving, lastSavedAt, writes>>
  /\ Subscriber(timers, timerRef)

\* the failed load that opens the path with an empty table
readFailOpensEmpty(i) ==
  /\ columns' = <<>>
  /\ rows' = <<>>
  /\ filePath' = reads[i].path
  /\ isDirty' = FALSE
  /\ undoStack' = <<>>
  /\ redoStack' = <<>>
  /\ reads' = RemoveAt(reads, i)
  /\ UNCHANGED <<isSaving, lastSavedAt, writes>>
  /\ Subscriber(timers, timerRef)

\* loadFile after await readCsv rejected: loadFile rejects, no set()
readFail(i) ==
  /\ reads' = RemoveAt(reads, i)
  /\ UNCHANGED <<storeVars, timers, timerRef, writes>>

\* useFileWatcher's listener for a 'file-changed' event
fileChanged(path) ==
  IF filePath # Null /\ path = filePath /\ ~isDirty
    THEN loadFile(filePath, "watcher")
    ELSE NoSet

\* the setTimeout callback of useAutoSave: timer i has fired
timerFired(i) ==
  LET ts == RemoveAt(timers, i)
      ref == IF timerRef = "pending" /\ i = Len(timers) THEN "fired" ELSE timerRef
  IN save(ts, ref)

\* ------------------------------------------------------------------ bounds

\* calls of each kind the environment makes in one behaviour of Spec
MaxEdits == 2
MaxHistory == 2
MaxFileOps == 2
MaxSaves == 1
MaxEvents == 1
\* and calls of all kinds together
MaxCalls == 5
\* writeCsv calls in flight at once, and the size of a table
MaxInFlight == 2
MaxRows == 2
MaxCols == 2

\* ------------------------------------------------------------------ inputs

ColA == [field |-> "a", header_name |-> "A"]
ColB == [field |-> "b", header_name |-> "B"]
\* the columns the "+ Column" prompt makes: field is the lower-cased name
ColumnPool == {ColA, ColB}

Row1(a) == [k \in Keys |-> IF k = "a" THEN a ELSE Absent]
Row2(a, b) == [k \in Keys |-> IF k = "a" THEN a ELSE IF k = "b" THEN b ELSE Absent]

\* what readCsv can resolve with: rectangular tables with distinct fields
FileTables ==
  { [columns |-> <<ColA>>, rows |-> <<Row1("x")>>],
    [columns |-> <<ColA>>, rows |-> <<Row1("y")>>] }

\* larger files, for the specification of the edits
WideTables ==
  { [columns |-> <<ColA>>, rows |-> <<Row1("x")>>],
    [columns |-> <<ColA, ColB>>, rows |-> <<Row2("x", "y"), Row2("y", "")>>] }

\* the indexes of an array, as JavaScript counts them
Indexes(arr) == 0..(Len(arr) - 1)

\* the orders the grid can report after a column drag: the current fields,
\* permuted
FieldOrders ==
  LET n == Len(columns)
      perms == {p \in [1..n -> 1..n] : \A i \in 1..n : \E j \in 1..n : p[j] = i}
  IN {[i \in 1..n |-> columns[p[i]].field] : p \in perms}

\* ------------------------------------------------------------------ Spec

NoRun == [phase |-> "none", edits |-> 0, undos |-> 0, redos |-> 0]
EmptyTable == [columns |-> <<>>, rows |-> <<>>]

\* the sheet store as create() makes it, no timer, no call in flight
SheetIdle ==
  /\ columns = <<>>
  /\ rows = <<>>
  /\ filePath = Null
  /\ isDirty = FALSE
  /\ isSaving = FALSE
  /\ lastSavedAt = Null
  /\ undoStack = <<>>
  /\ redoStack = <<>>
  /\ timers = <<>>
  /\ timerRef = Null
  /\ reads = <<>>
  /\ writes = <<>>
  /\ last = "init"
  /\ used = [edit |-> 0, history |-> 0, file |-> 0, save |-> 0, event |-> 0]
  /\ synced = EmptyTable
  /\ run = NoRun
  /\ s0 = EmptyTable
  /\ s1 = EmptyTable
  /\ quiet = 0

\* the repo store with an empty recent list and no call in flight
RepoIdle ==
  /\ recentRepos = <<>>
  /\ repoInfo = Null
  /\ isOpen = FALSE
  /\ localStorage = <<>>
  /\ opens = <<>>
  /\ opened = Null

\* no comparison made yet
EmptyDiff ==
  [addedRows |-> <<>>, removedRows |-> <<>>, modifiedCells |-> <<>>,
   addedColumns |-> <<>>, removedColumns |-> <<>>]
DiffIdle ==
  /\ alignment = [names |-> <<>>, rows |-> <<>>]
  /\ highlightData = <<>>
  /\ structuredDiff = EmptyDiff
  /\ summary = <<>>

\* no MergeResolver mounted
MergeIdle ==
  /\ theirsRows = <<>>
  /\ oursRows = <<>>
  /\ mergedRows = <<>>
  /\ baseRows = <<>>
  /\ resolves = <<>>
  /\ ipcLog = <<>>

\* no save awaited by a timer callback, no git call made
AutoIdle ==
  /\ writers = <<>>
  /\ gitCalls = <<>>

\* the diff store as create() makes it, no computeDiff in flight
PickIdle ==
  /\ isCompareMode = FALSE
  /\ fromCommit = Null
  /\ toCommit = Null
  /\ diffResult = <<>>
  /\ isLoading = FALSE
  /\ computes = <<>>
  /\ deps = <<>>

Init ==
  /\ SheetIdle
  /\ RepoIdle
  /\ DiffIdle
  /\ MergeIdle
  /\ AutoIdle
  /\ PickIdle

\* the calls that always reach set(), and those that return early when
\* asked for the order there already is
EditCalls == {"updateCell", "addRow", "removeRow", "addColumn", "removeColumn"}
MoveCalls == {"moveRow", "moveColumn", "reorderColumns"}

\* Where the history stands after the call op: "undo" once an undo has taken a
\* snapshot back, "branch" once an edit has followed it, "none" after
\* clearFile.  Read after the call has set the primed variables.
Track(op) ==
  IF op = "undo" /\ undoStack # <<>>
    THEN [run EXCEPT !.phase = "undo"]
  ELSE IF /\ run.phase = "undo"
          /\ \/ op \in EditCalls
             \/ op \in MoveCalls /\ current' # current
    THEN [run EXCEPT !.phase = "branch"]
  ELSE IF op = "clearFile"
    THEN [run EXCEPT !.phase = "none"]
  ELSE run

\* the environment may make one more call of a kind
Budget(kind, max) ==
  /\ used[kind] < max
  /\ used.edit + used.history + used.file + used.save + used.event < MaxCalls

\* the environment has made a call of a kind, the handler op has run
Called(kind, op) ==
  /\ used' = [used EXCEPT ![kind] = @ + 1]
  /\ last' = op
  /\ run' = Track(op)
  /\ quiet' = IF /\ kind \in {"edit", "history"}
                 /\ <<columns', rows', undoStack', redoStack'>>
                      # <<columns, rows, undoStack, redoStack>>
               THEN 0 ELSE quiet
  /\ UNCHANGED <<otherVars, synced, s0, s1>>

\* a timer or a promise has run the handler op
Ran(op) ==
  /\ last' = op
  /\ run' = Track(op)
  /\ UNCHANGED <<used, s0, s1, quiet>>

Completed(op) ==
  /\ Ran(op)
  /\ UNCHANGED otherVars

\* onCellValueChanged: a cell of the grid was edited
UpdateCell ==
  /\ Budget("edit", MaxEdits)
  /\ \E r \in Indexes(rows), c \in Indexes(columns), v \in Vals :
       updateCell(r, columns[c + 1].field, v)
  /\ Called("edit", "updateCell")

\* "+ Row", "Add Row Above", "Add Row Below"
AddRow ==
  /\ Budget("edit", MaxEdits)
  /\ Len(rows) < MaxRows
  /\ \E at \in {<<>>} \cup {<<i>> : i \in 0..Len(rows)} : addRow(at)
  /\ Called("edit", "addRow")

\* "Delete Row"
RemoveRow ==
  /\ Budget("edit", MaxEdits)
  /\ \E r \in Indexes(rows) : removeRow(r)
  /\ Called("edit", "removeRow")

\* onRowDragEnd, "Move Row Up", "Move Row Down"
MoveRow ==
  /\ Budget("edit", MaxEdits)
  /\ \E from \in Indexes(rows), to \in Indexes(rows) : moveRow(from, to)
  /\ Called("edit", "moveRow")

\* "+ Column", "Add Column"
AddColumn ==
  /\ Budget("edit", MaxEdits)
  /\ Len(columns) < MaxCols
  /\ \E c \in ColumnPool : addColumn(c, <<>>)
  /\ Called("edit", "addColumn")

\* "Delete Column"
RemoveColumn ==
  /\ Budget("edit", MaxEdits)
  /\ \E c \in Indexes(columns) : removeColumn(columns[c + 1].field)
  /\ Called("edit", "removeColumn")

\* "Move Column Left", "Move Column Right"
MoveColumn ==
  /\ Budget("edit", MaxEdits)
  /\ \E from \in Indexes(columns), to \in Indexes(columns) :
       /\ to \in {from - 1, from + 1}
       /\ moveColumn(from, to)
  /\ Called("edit", "moveColumn")

\* onDragStopped: any drag in the grid has ended
ReorderColumns ==
  /\ Budget("edit", MaxEdits)
  /\ \E order \in FieldOrders : reorderColumns(order)
  /\ Called("edit", "reorderColumns")

\* Ctrl+Z
Undo ==
  /\ Budget("history", MaxHistory)
  /\ undo
  /\ Called("history", "undo")

\* Ctrl+Y
Redo ==
  /\ Budget("history", MaxHistory)
  /\ redo
  /\ Called("history", "redo")

\* handleFileClick, handleBranchSwitch: a file is opened
LoadFile ==
  /\ Budget("file", MaxFileOps)
  /\ \E f \in Files : loadFile(f, "user")
  /\ Called("file", "loadFile")

\* handleBranchSwitch: the open file does not exist on the new branch
ClearFile ==
  /\ Budget("file", MaxFileOps)
  /\ clearFile
  /\ Called("file", "clearFile")

\* Ctrl+S
Save ==
  /\ Budget("save", MaxSaves)
  /\ Len(writes) < MaxInFlight
  /\ save(timers, timerRef)
  /\ Called("save", "save")

\* the backend reports a change of a file
FileChanged ==
  /\ Budget("event", MaxEvents)
  /\ \E f \in Files : fileChanged(f)
  /\ Called("event", "fileChanged")

\* the auto-save delay has passed
TimerFire ==
  /\ Len(writes) < MaxInFlight
  /\ \E i \in 1..Len(timers) : timerFired(i)
  /\ Completed("timerFire")
  /\ UNCHANGED synced

\* readCsv call i resolves with data; the handler is called "reload" when
\* the file watcher had started the read
Resolved(i, data) ==
  /\ readOk(i, data)
  /\ synced' = data
  /\ last' = IF reads[i].by = "watcher" THEN "reload" ELSE "readOk"
  /\ run' = [run EXCEPT !.phase = "none"]
  /\ UNCHANGED <<otherVars, used, s0, s1, quiet>>

ReadOk ==
  \E i \in 1..Len(reads), data \in FileTables : Resolved(i, data)

\* readCsv resolves with one of the larger files
ReadWide ==
  \E i \in 1..Len(reads), data \in WideTables : Resolved(i, data)

ReadFail ==
  /\ \E i \in 1..Len(reads) : readFail(i)
  /\ Completed("readFail")
  /\ UNCHANGED synced

WriteOk ==
  /\ \E i \in 1..Len(writes) :
       /\ writeOk(i)
       /\ synced' = [columns |-> writes[i].columns, rows |-> writes[i].rows]
  /\ Completed("writeOk")

WriteFail ==
  /\ \E i \in 1..Len(writes) : writeFail(i)
  /\ Completed("writeFail")
  /\ UNCHANGED synced

\* The edits, undo and redo on an open file, with every argument the grid
\* and its menus can pass.
NextEdit ==
  \/ LoadFile
  \/ ReadWide
  \/ ClearFile
  \/ UpdateCell
  \/ AddRow
  \/ RemoveRow
  \/ MoveRow
  \/ AddColumn
  \/ RemoveColumn
  \/ MoveColumn
  \/ ReorderColumns
  \/ Undo
  \/ Redo

SpecEdit == Init /\ [][NextEdit]_vars

\* Loads, saves, the auto-save timer and the file watcher, interleaved with
\* cell edits, undo and redo.
NextIO ==
  \/ LoadFile
  \/ ClearFile
  \/ ReadOk
  \/ ReadFail
  \/ UpdateCell
  \/ Undo
  \/ Redo
  \/ Save
  \/ FileChanged
  \/ TimerFire
  \/ WriteOk
  \/ WriteFail

SpecIO == Init /\ [][NextIO]_vars

\* calls the user and the backend make in a run of SpecFair
MaxFairCalls == 4

FewCalls ==
  used.edit + used.history + used.file + used.save + used.event < MaxFairCalls

\* NextIO in runs of at most MaxFairCalls calls
NextFair ==
  \/ FewCalls /\ LoadFile
  \/ FewCalls /\ ClearFile
  \/ ReadOk
  \/ ReadFail
  \/ FewCalls /\ UpdateCell
  \/ FewCalls /\ Undo
  \/ FewCalls /\ Redo
  \/ FewCalls /\ Save
  \/ FewCalls /\ FileChanged
  \/ TimerFire
  \/ WriteOk
  \/ WriteFail

\* The event loop's guarantees: a pending timer fires, and a call of readCsv
\* or writeCsv settles.  The user may stop at any time.
SpecFair ==
  /\ Init
  /\ [][NextFair]_vars
  /\ WF_vars(TimerFire)
  /\ WF_vars(ReadOk \/ ReadFail)
  /\ WF_vars(WriteOk \/ WriteFail)

\* ----------------------------------------------------------------- SpecLoads

\* handleFileClick on one file and, before its read has settled, on another;
\* the reads resolve in any order and the user edits the table shown.
NextLoads ==
  \/ used.file = 0 /\ loadFile("f1.csv", "user") /\ Called("file", "loadFile")
  \/ /\ used.file = 1
     /\ reads # <<>>
     /\ loadFile("f2.csv", "user")
     /\ Called("file", "loadFile")
  \/ ReadOk
  \/ ReadWide
  \/ UpdateCell
  \/ Undo

SpecLoads == Init /\ [][NextLoads]_vars

\* ------------------------------------------------------------------ SpecAuto

\* the timer callback of the earlier hook after its await save() resolved:
\* it commits the file it had read from the store
afterSaveCommits(path) ==
  gitCalls' = Append(gitCalls, [op |-> "commit", files |-> <<path>>])

\* the timer callback after its await save() resolved: fetchStatus() calls
\* gitIpc.status(); path is the filePath the callback had read
afterSave(path) ==
  gitCalls' = Append(gitCalls, [op |-> "status", files |-> <<>>])

\* the components that neither save nor commit stand still
SaveOnly == UNCHANGED <<repoVars, diffVars, mergeVars, pickVars>>

\* Ctrl+S: save().catch(() => {})
SaveByUser ==
  /\ Budget("save", MaxSaves)
  /\ Len(writes) < MaxInFlight
  /\ save(timers, timerRef)
  /\ writers' = IF filePath = Null THEN writers ELSE Append(writers, "user")
  /\ used' = [used EXCEPT !.save = @ + 1]
  /\ last' = "save"
  /\ run' = Track("save")
  /\ UNCHANGED <<gitCalls, synced, s0, s1, quiet>>
  /\ SaveOnly

\* the auto-save delay has passed: the callback calls save() and waits
SaveByTimer ==
  /\ Len(writes) < MaxInFlight
  /\ \E i \in 1..Len(timers) : timerFired(i)
  /\ writers' = IF filePath = Null THEN writers ELSE Append(writers, "timer")
  /\ Ran("timerFire")
  /\ UNCHANGED <<gitCalls, synced>>
  /\ SaveOnly

\* writeCsv call i resolves: save() sets the store and resolves, and the
\* timer callback that awaited it goes on
Saved ==
  /\ \E i \in 1..Len(writes) :
       /\ writeOk(i)
       /\ synced' = [columns |-> writes[i].columns, rows |-> writes[i].rows]
       /\ writers' = RemoveAt(writers, i)
       /\ IF writers[i] = "timer" THEN afterSave(writes[i].path)
                                  ELSE UNCHANGED gitCalls
  /\ Ran("writeOk")
  /\ SaveOnly

\* writeCsv call i rejects: save() rethrows, the caller's catch is empty
SaveFailed ==
  /\ \E i \in 1..Len(writes) :
       /\ writeFail(i)
       /\ writers' = RemoveAt(writers, i)
  /\ Ran("writeFail")
  /\ UNCHANGED <<gitCalls, synced>>
  /\ SaveOnly

\* Edits of an open file saved by the user and by the auto-save timer.
NextAuto ==
  \/ FewCalls /\ LoadFile
  \/ ReadOk
  \/ FewCalls /\ UpdateCell
  \/ FewCalls /\ SaveByUser
  \/ SaveByTimer
  \/ Saved
  \/ SaveFailed

SpecAuto == Init /\ [][NextAuto]_vars

\* ------------------------------------------------------------------- SpecAny

\* any index a caller of the store may pass for an array: in range, negative
\* or past the end
AnyIndex(arr) == (-1)..(Len(arr) + 1)

\* any list of fields as long as the columns, or one shorter or longer
AnyFieldOrders ==
  UNION {[1..n -> Fields] : n \in Max(Len(columns) - 1, 0)..Min(Len(columns) + 1, MaxCols)}

AnyUpdateCell ==
  /\ Budget("edit", MaxEdits)
  /\ \E r \in AnyIndex(rows), f \in Fields, v \in Vals : updateCell(r, f, v)
  /\ Called("edit", "updateCell")

AnyAddRow ==
  /\ Budget("edit", MaxEdits)
  /\ Len(rows) < MaxRows
  /\ \E at \in {<<>>} \cup {<<i>> : i \in AnyIndex(rows)} : addRow(at)
  /\ Called("edit", "addRow")

AnyRemoveRow ==
  /\ Budget("edit", MaxEdits)
  /\ \E r \in AnyIndex(rows) : removeRow(r)
  /\ Called("edit", "removeRow")

AnyMoveRow ==
  /\ Budget("edit", MaxEdits)
  /\ Len(rows) <= MaxRows
  /\ \E from \in AnyIndex(rows), to \in AnyIndex(rows) : moveRow(from, to)
  /\ Called("edit", "moveRow")

AnyAddColumn ==
  /\ Budget("edit", MaxEdits)
  /\ Len(columns) < MaxCols
  /\ \E c \in ColumnPool, at \in {<<>>} \cup {<<i>> : i \in AnyIndex(columns)} :
       addColumn(c, at)
  /\ Called("edit", "addColumn")

AnyRemoveColumn ==
  /\ Budget("edit", MaxEdits)
  /\ \E f \in Fields : removeColumn(f)
  /\ Called("edit", "removeColumn")

AnyMoveColumn ==
  /\ Budget("edit", MaxEdits)
  /\ Len(columns) <= MaxCols
  /\ \E from \in AnyIndex(columns), to \in AnyIndex(columns) : moveColumn(from, to)
  /\ Called("edit", "moveColumn")

AnyReorderColumns ==
  /\ Budget("edit", MaxEdits)
  /\ \E order \in AnyFieldOrders : reorderColumns(order)
  /\ Called("edit", "reorderColumns")

\* The operations of the store called with any arguments of their types.
NextAny ==
  \/ LoadFile
  \/ ReadWide
  \/ ClearFile
  \/ AnyUpdateCell
  \/ AnyAddRow
  \/ AnyRemoveRow
  \/ AnyMoveRow
  \/ AnyAddColumn
  \/ AnyRemoveColumn
  \/ AnyMoveColumn
  \/ AnyReorderColumns
  \/ Undo
  \/ Redo

SpecAny == Init /\ [][NextAny]_vars

\* ----------------------------------------------------------------- SpecTimer

AUTO_SAVE_DELAY_MS == 2000

\* the step of the clock
TickMs == AUTO_SAVE_DELAY_MS \div 2

\* TickMs pass; times are counted up to the delay
Tick ==
  /\ \/ quiet < AUTO_SAVE_DELAY_MS
     \/ \E i \in 1..Len(timers) : timers[i] < AUTO_SAVE_DELAY_MS
  /\ timers' = [i \in 1..Len(timers) |-> Min(timers[i] + TickMs, AUTO_SAVE_DELAY_MS)]
  /\ quiet' = Min(quiet + TickMs, AUTO_SAVE_DELAY_MS)
  /\ last' = "tick"
  /\ UNCHANGED <<otherVars, storeVars, timerRef, reads, writes, used, synced, run, s0, s1>>

\* a timer whose delay has passed runs its callback
TimerDue ==
  /\ Len(writes) < MaxInFlight
  /\ \E i \in 1..Len(timers) :
       /\ timers[i] = AUTO_SAVE_DELAY_MS
       /\ timerFired(i)
  /\ Completed("timerFire")
  /\ UNCHANGED synced

\* Cell edits, undo, redo, loads and saves with the clock: a timer fires
\* only when its delay has passed.
NextTimer ==
  \/ FewCalls /\ LoadFile
  \/ FewCalls /\ ClearFile
  \/ ReadOk
  \/ FewCalls /\ UpdateCell
  \/ FewCalls /\ Undo
  \/ FewCalls /\ Redo
  \/ FewCalls /\ Save
  \/ Tick
  \/ TimerDue
  \/ WriteOk
  \/ WriteFail

SpecTimer == Init /\ [][NextTimer]_vars

\* ------------------------------------------------------------------ SpecHist

\* longest run of consecutive edits, and the redo calls that follow its undos
MaxRun == 102
MaxRedos == 2

\* the other cell text
Toggle(v) == IF v = "x" THEN "y" ELSE "x"

\* The n-th edit of a run (n counted from 0): a cell edit, a row appended and
\* moved, a column appended, moved, reordered and deleted, a row deleted, and
\* over again.  Every edit changes the table.
ScriptEdit(n) ==
  CASE n % 8 = 0 -> updateCell(0, columns[1].field, Toggle(rows[1][columns[1].field]))
    [] n % 8 = 1 -> addRow(<<>>)
    [] n % 8 = 2 -> moveRow(0, Len(rows) - 1)
    [] n % 8 = 3 -> addColumn(ColB, <<>>)
    [] n % 8 = 4 -> moveColumn(Len(columns) - 1, 0)
    [] n % 8 = 5 -> reorderColumns([i \in 1..Len(columns) |->
                                      columns[Len(columns) + 1 - i].field])
    [] n % 8 = 6 -> removeColumn("b")
    [] n % 8 = 7 -> removeRow(0)

\* a file is opened: the run starts from the table read
HistLoad ==
  /\ reads = <<>>
  /\ run.phase = "none"
  /\ \E f \in Files : loadFile(f, "user")
  /\ last' = "loadFile"
  /\ UNCHANGED <<otherVars, used, synced, run, s0, s1, quiet>>

HistReadOk ==
  /\ reads # <<>>
  /\ \E data \in FileTables :
       /\ readOk(1, data)
       /\ synced' = data
       /\ s0' = data
       /\ s1' = data
  /\ last' = "readOk"
  /\ run' = [phase |-> "edit", edits |-> 0, undos |-> 0, redos |-> 0]
  /\ UNCHANGED <<otherVars, used, quiet>>

HistEdit ==
  /\ run.phase = "edit"
  /\ run.edits < MaxRun
  /\ ScriptEdit(run.edits)
  /\ last' = "edit"
  /\ run' = [run EXCEPT !.edits = @ + 1]
  /\ s1' = IF run.edits = 0 THEN [columns |-> columns', rows |-> rows'] ELSE s1
  /\ UNCHANGED <<otherVars, used, synced, s0, quiet>>

HistUndo ==
  /\ run.phase \in {"edit", "undo"}
  /\ run.undos < run.edits
  /\ undo
  /\ last' = "undo"
  /\ run' = [run EXCEPT !.phase = "undo", !.undos = @ + 1]
  /\ UNCHANGED <<otherVars, used, synced, s0, s1, quiet>>

HistRedo ==
  /\ run.phase \in {"undo", "redo"}
  /\ run.redos < MaxRedos
  /\ redo
  /\ last' = "redo"
  /\ run' = [run EXCEPT !.phase = "redo", !.redos = @ + 1]
  /\ UNCHANGED <<otherVars, used, synced, s0, s1, quiet>>

HistClear ==
  /\ run.phase # "none"
  /\ clearFile
  /\ last' = "clearFile"
  /\ run' = NoRun
  /\ s0' = EmptyTable
  /\ s1' = EmptyTable
  /\ UNCHANGED <<otherVars, used, synced, quiet>>

\* One file opened, a run of up to MaxRun scripted edits, then undo calls,
\* then redo calls; clearFile at any point ends the run.
NextHist ==
  \/ HistLoad
  \/ HistReadOk
  \/ HistEdit
  \/ HistUndo
  \/ HistRedo
  \/ HistClear

SpecHist == Init /\ [][NextHist]_vars

\* ---------------------------------------------------------------- repo store

\* const MAX_RECENT = 10
MAX_RECENT == 10

\* calls of openRepo and initRepo in flight at once
MaxOpens == 2

\* A stored recent list is a list the program has persisted before: the
\* first paths of one list of MAX_RECENT paths.
FullList == <<"r1", "r2", "r3", "r4", "r5", "r6", "r7", "r8", "r9", "r10">>
StoredLists == {SubSeq(FullList, 1, n) : n \in 0..MAX_RECENT}
\* the paths the user picks: the head of the list, a later entry, its last
\* entry when it is full, and one it never holds at the start
PickedPaths == {"r1", "r2", "r10", "r11"}

\* raw ? JSON.parse(raw) : []
loadRecentRepos(raw) == IF raw = <<>> THEN <<>> ELSE raw[1]

\* an addToRecent that does not filter the path out of the list first
addToRecentNoFilter(path, existing) ==
  SubSeq(<<path>> \o existing, 1, Min(Len(existing) + 1, MAX_RECENT))

\* [path, ...existing.filter(p => p !== path)].slice(0, MAX_RECENT)
addToRecent(path, existing) ==
  LET filtered == SelectSeq(existing, LAMBDA q : q # path)
  IN SubSeq(<<path>> \o filtered, 1, Min(Len(filtered) + 1, MAX_RECENT))

\* openRepo(path) and initRepo(path) up to their await
openRepo(path) ==
  /\ opens' = Append(opens, [fn |-> "openRepo", path |-> path])
  /\ UNCHANGED <<recentRepos, repoInfo, isOpen, localStorage, opened>>

initRepo(path) ==
  /\ opens' = Append(opens, [fn |-> "init", path |-> path])
  /\ UNCHANGED <<recentRepos, repoInfo, isOpen, localStorage, opened>>

\* the call resolves with the RepoInfo: addToRecent persists the new list
\* and set() stores it
openResolved(i) ==
  LET updated == addToRecent(opens[i].path, recentRepos)
  IN /\ localStorage' = <<updated>>
     /\ recentRepos' = updated
     /\ repoInfo' = opens[i].path
     /\ isOpen' = TRUE
     /\ opened' = opens[i].path
     /\ opens' = RemoveAt(opens, i)

\* the call rejects: the await throws and set() is never reached
openRejected(i) ==
  /\ opens' = RemoveAt(opens, i)
  /\ UNCHANGED <<recentRepos, repoInfo, isOpen, localStorage, opened>>

closeRepo ==
  /\ repoInfo' = Null
  /\ isOpen' = FALSE
  /\ UNCHANGED <<recentRepos, localStorage, opens, opened>>

\* the sheet store and the other components stand still
RepoOnly ==
  UNCHANGED <<progVars, ghostVars, diffVars, mergeVars, autoVars, pickVars>>

OpenRepo ==
  /\ Len(opens) < MaxOpens
  /\ \E path \in PickedPaths : openRepo(path)
  /\ RepoOnly

InitRepo ==
  /\ Len(opens) < MaxOpens
  /\ \E path \in PickedPaths : initRepo(path)
  /\ RepoOnly

OpenResolved ==
  /\ \E i \in 1..Len(opens) : openResolved(i)
  /\ RepoOnly

OpenRejected ==
  /\ \E i \in 1..Len(opens) : openRejected(i)
  /\ RepoOnly

CloseRepo ==
  /\ isOpen
  /\ closeRepo
  /\ RepoOnly

\* the store is created with the list localStorage holds
InitRecent ==
  /\ SheetIdle
  /\ AutoIdle
  /\ PickIdle
  /\ DiffIdle
  /\ MergeIdle
  /\ localStorage \in {<<>>} \cup {<<l>> : l \in StoredLists}
  /\ recentRepos = loadRecentRepos(localStorage)
  /\ repoInfo = Null
  /\ isOpen = FALSE
  /\ opens = <<>>
  /\ opened = Null

NextRecent ==
  \/ OpenRepo
  \/ InitRepo
  \/ OpenResolved
  \/ OpenRejected
  \/ CloseRepo

SpecRecent == InitRecent /\ [][NextRecent]_vars

\* -------------------------------------------------------------- diff service

\* rows of an alignment, and entries of each list of a StructuredDiff
MaxDiffRows == 2
MaxListed == 2

\* A text is the sequence of its characters.  The markers of the highlight
\* table: '+++', '---', '->', and '' for a row or column left as it was.
Marker ==
  [added |-> <<"+", "+", "+">>, removed |-> <<"-", "-", "-">>,
   modified |-> <<"-", ">">>, none |-> <<>>]

\* the elements of a set of integers, the smallest first
Ascending(S) ==
  [i \in 1..Cardinality(S) |->
     CHOOSE x \in S : Cardinality({y \in S : y < x}) = i - 1]

\* text.indexOf(pattern)
indexOf(text, pattern) ==
  LET at == {i \in 1..(Len(text) - Len(pattern) + 1) :
               SubSeq(text, i, i + Len(pattern) - 1) = pattern}
  IN IF at = {} THEN -1 ELSE Ascending(at)[1] - 1

\* text.trim()
trim(text) ==
  LET inked == Ascending({i \in 1..Len(text) : text[i] # " "})
  IN IF inked = <<>> THEN <<>> ELSE SubSeq(text, inked[1], inked[Len(inked)])

\* An alignment of two tables with the same columns: the column names and,
\* for each row of the unified order, whether it is matched, inserted or
\* deleted, with its cells on the left and on the right.  The highlight
\* table made from it: the row of column markers (if present), the header
\* row, then a row for each row of the alignment, its marker first; a cell
\* that differs is written old->new.
hilite(al, withActionRow) ==
  LET n == Len(al.names)
      shown(row) ==
        IF row.kind = "inserted" THEN <<Marker.added>> \o row.right
        ELSE IF row.kind = "deleted" THEN <<Marker.removed>> \o row.left
        ELSE IF row.left = row.right THEN <<Marker.none>> \o row.left
        ELSE <<Marker.modified>> \o
               [c \in 1..n |->
                  IF row.left[c] = row.right[c]
                    THEN row.left[c]
                    ELSE row.left[c] \o Marker.modified \o row.right[c]]
      actionRow == <<(<< <<"!">> >> \o [c \in 1..n |-> Marker.none])>>
      header == <<(<< <<"@", "@">> >> \o al.names)>>
  IN (IF withActionRow THEN actionRow ELSE <<>>)
       \o header
       \o [i \in 1..Len(al.rows) |-> shown(al.rows[i])]

extractStructuredDiff(data) ==
  IF Len(data) = 0 THEN EmptyDiff
  ELSE
    LET colActionRow == data[1]
        headerRow == IF Len(data) > 1 THEN data[2] ELSE <<>>
        \* String(headerRow[c] ?? `col_${c}`), c below 10
        colName(c) ==
          IF c < Len(headerRow) THEN headerRow[c + 1]
          ELSE <<"c", "o", "l", "_", ToString(c)>>
        \* for (let c = 1; c < colActionRow.length; c++)
        marked(m) ==
          LET cs == Ascending({c \in 1..(Len(colActionRow) - 1) :
                                 colActionRow[c + 1] = m})
          IN [i \in 1..Len(cs) |-> colName(cs[i])]
        \* for (let r = 2; r < highlightData.length; r++): dataRowIndex is r - 2
        acted(m) ==
          LET rs == Ascending({r \in 2..(Len(data) - 1) : data[r + 1][1] = m})
          IN [i \in 1..Len(rs) |-> rs[i] - 2]
        \* the cells with an arrow in the rows marked '->', row by row
        widths == Ascending({Len(data[r]) : r \in 1..Len(data)})
        W == widths[Len(widths)]
        arrows ==
          Ascending({q[1] * W + q[2] :
                       q \in {o \in (2..(Len(data) - 1)) \X (1..(W - 1)) :
                                /\ data[o[1] + 1][1] = Marker.modified
                                /\ o[2] < Len(data[o[1] + 1])
                                /\ indexOf(data[o[1] + 1][o[2] + 1], Marker.modified) # -1}})
        entry(r, c) ==
          LET cellValue == data[r + 1][c + 1]
              arrowIndex == indexOf(cellValue, Marker.modified)
          IN [row |-> r - 2,
              col |-> colName(c),
              oldValue |-> trim(SubSeq(cellValue, 1, arrowIndex)),
              newValue |-> trim(SubSeq(cellValue, arrowIndex + 3, Len(cellValue)))]
    IN [addedRows |-> acted(Marker.added),
        removedRows |-> acted(Marker.removed),
        modifiedCells |-> [i \in 1..Len(arrows) |-> entry(arrows[i] \div W, arrows[i] % W)],
        addedColumns |-> marked(Marker.added),
        removedColumns |-> marked(Marker.removed)]

\* a buildSummary that returns the joined parts even when there are none
buildSummaryNoSentinel(structured) ==
  LET part(list, label) ==
        IF Len(list) > 0 THEN << <<ToString(Len(list)), label>> >> ELSE <<>>
  IN part(structured.addedRows, "row(s) added")
       \o part(structured.removedRows, "row(s) removed")
       \o part(structured.modifiedCells, "cell(s) modified")
       \o part(structured.addedColumns, "column(s) added")
       \o part(structured.removedColumns, "column(s) removed")

\* The summary as the list of its parts; the part `${n} label` is the pair
\* of the digits of n and the label.
buildSummary(structured) ==
  LET part(list, label) ==
        IF Len(list) > 0 THEN << <<ToString(Len(list)), label>> >> ELSE <<>>
      parts ==
        part(structured.addedRows, "row(s) added")
          \o part(structured.removedRows, "row(s) removed")
          \o part(structured.modifiedCells, "cell(s) modified")
          \o part(structured.addedColumns, "column(s) added")
          \o part(structured.removedColumns, "column(s) removed")
  IN IF Len(parts) > 0 THEN parts ELSE << <<"No changes detected">> >>

\* compareCsv from the alignment on
compareCsv(withActionRow) ==
  LET data == hilite(alignment, withActionRow)
  IN /\ highlightData' = data
     /\ structuredDiff' = extractStructuredDiff(data)
     /\ summary' = buildSummary(extractStructuredDiff(data))
     /\ UNCHANGED alignment

\* the cell texts, rows and alignments compared: plain text, text with a
\* blank in front, text with an arrow in it; a matched row differs in its
\* first cell or not at all
Alignments ==
  LET CellTexts == {<<"a">>, <<" ", "b">>, <<"a", "-", ">", "b">>}
      DiffRows ==
        {[kind |-> "matched", left |-> <<l1, l2>>, right |-> <<r1, l2>>] :
           l1 \in CellTexts, l2 \in CellTexts, r1 \in CellTexts}
        \cup {[kind |-> k, left |-> <<t, <<"a">>>>, right |-> <<t, <<"a">>>>] :
                k \in {"inserted", "deleted"}, t \in CellTexts}
  IN {[names |-> <<n1, <<"q">>>>, rows |-> rs] :
        n1 \in {<<"i", "d">>, Marker.added},
        rs \in UNION {[1..k -> DiffRows] : k \in 0..MaxDiffRows}}

\* the structured diffs summarized: up to MaxListed entries in each list
StructuredDiffs ==
  {[addedRows |-> [i \in 1..a |-> i - 1],
    removedRows |-> [i \in 1..b |-> i + 1],
    modifiedCells |-> [i \in 1..c |->
                        [row |-> i + 3, col |-> <<"q">>,
                         oldValue |-> <<"a">>, newValue |-> <<"b">>]],
    addedColumns |-> [i \in 1..d |-> <<"n">>],
    removedColumns |-> [i \in 1..e |-> <<"o">>]] :
     a \in 0..MaxListed, b \in 0..MaxListed, c \in 0..MaxListed,
     d \in 0..MaxListed, e \in 0..MaxListed}

\* the other components stand still while the diff service runs
DiffOnly ==
  UNCHANGED <<progVars, repoVars, mergeVars, autoVars, pickVars,
              used, synced, run, s0, s1, quiet>>

CompareCsv ==
  /\ last = "init"
  /\ \E withActionRow \in BOOLEAN : compareCsv(withActionRow)
  /\ last' = "compareCsv"
  /\ DiffOnly

BuildSummary ==
  /\ last = "init"
  /\ summary' = buildSummary(structuredDiff)
  /\ last' = "buildSummary"
  /\ UNCHANGED <<alignment, highlightData, structuredDiff>>
  /\ DiffOnly

InitCompare ==
  /\ SheetIdle
  /\ AutoIdle
  /\ PickIdle
  /\ RepoIdle
  /\ MergeIdle
  /\ alignment \in Alignments
  /\ highlightData = <<>>
  /\ structuredDiff = EmptyDiff
  /\ summary = <<>>

SpecCompare == InitCompare /\ [][CompareCsv]_vars

InitSummary ==
  /\ SheetIdle
  /\ AutoIdle
  /\ PickIdle
  /\ RepoIdle
  /\ MergeIdle
  /\ alignment = [names |-> <<>>, rows |-> <<>>]
  /\ highlightData = <<>>
  /\ structuredDiff \in StructuredDiffs
  /\ summary = <<>>

SpecSummary == InitSummary /\ [][BuildSummary]_vars

\* ----------------------------------------------------------- merge resolver

\* data rows of a table, cell actions and Resolve & Commit clicks in one
\* behaviour
MaxMergeRows == 1
MaxMergeEdits == 1
MaxResolves == 1

\* rows[rowIdx]?.[colIdx] ?? ''
ValueAt(table, rowIdx, colIdx) ==
  IF rowIdx < Len(table) /\ colIdx < Len(table[rowIdx + 1])
    THEN table[rowIdx + 1][colIdx + 1]
    ELSE ""

\* ConflictCell of the merged pane at (rowIdx, colIdx)
hasConflict(rowIdx, colIdx) ==
  ValueAt(theirsRows, rowIdx, colIdx) # ValueAt(oursRows, rowIdx, colIdx)
isResolved(rowIdx, colIdx) ==
  \/ ValueAt(mergedRows, rowIdx, colIdx) = ValueAt(theirsRows, rowIdx, colIdx)
  \/ ValueAt(mergedRows, rowIdx, colIdx) = ValueAt(oursRows, rowIdx, colIdx)

\* updated[rowIdx][colIdx] = value: past its end the row grows, with holes
AssignAt(table, rowIdx, colIdx, value) ==
  LET row == table[rowIdx + 1]
      grown == row \o [i \in 1..(colIdx + 1 - Len(row)) |-> Undef]
  IN [table EXCEPT ![rowIdx + 1] = [grown EXCEPT ![colIdx + 1] = value]]

\* the accept handler with the side's whole row copied over the working row
AcceptWholeRow(side, rowIdx, colIdx) ==
  /\ mergedRows' =
       IF rowIdx < Len(mergedRows) /\ rowIdx < Len(side)
         THEN [mergedRows EXCEPT ![rowIdx + 1] = side[rowIdx + 1]]
         ELSE mergedRows
  /\ UNCHANGED <<theirsRows, oursRows, baseRows, resolves, ipcLog>>

\* handleAcceptTheirs and handleAcceptOurs, side being theirsRows or oursRows
handleAccept(side, rowIdx, colIdx) ==
  /\ mergedRows' =
       IF rowIdx < Len(mergedRows) /\ rowIdx < Len(side)
         THEN AssignAt(mergedRows, rowIdx, colIdx,
                       IF colIdx < Len(side[rowIdx + 1])
                         THEN side[rowIdx + 1][colIdx + 1] ELSE "")
         ELSE mergedRows
  /\ UNCHANGED <<theirsRows, oursRows, baseRows, resolves, ipcLog>>

\* handleAcceptAllTheirs and handleAcceptAllOurs
handleAcceptAll(side) ==
  /\ mergedRows' = side
  /\ UNCHANGED <<theirsRows, oursRows, baseRows, resolves, ipcLog>>

handleEditMerged(rowIdx, colIdx, value) ==
  /\ mergedRows' =
       IF rowIdx < Len(mergedRows)
         THEN AssignAt(mergedRows, rowIdx, colIdx, value)
         ELSE mergedRows
  /\ UNCHANGED <<theirsRows, oursRows, baseRows, resolves, ipcLog>>

\* handleResolveAndCommit up to await gitIpc.resolveConflicts; a line of
\* ipcLog names the call it belongs to and what happened
handleResolveAndCommit ==
  LET id == Cardinality({i \in 1..Len(ipcLog) : ipcLog[i].op = "resolveConflicts"}) + 1
  IN /\ ipcLog' = Append(ipcLog, [id |-> id, op |-> "resolveConflicts"])
     /\ resolves' = Append(resolves, [id |-> id, at |-> "resolveConflicts"])
     /\ UNCHANGED <<theirsRows, oursRows, mergedRows, baseRows>>

\* the write resolved: commitChanges is called
writeResolved(i) ==
  /\ resolves[i].at = "resolveConflicts"
  /\ ipcLog' = ipcLog \o <<[id |-> resolves[i].id, op |-> "written"],
                           [id |-> resolves[i].id, op |-> "commit"]>>
  /\ resolves' = [resolves EXCEPT ![i].at = "commit"]
  /\ UNCHANGED <<theirsRows, oursRows, mergedRows, baseRows>>

\* a catch that goes on to commit after the write was rejected
writeRejectedCommits(i) ==
  /\ resolves[i].at = "resolveConflicts"
  /\ ipcLog' = ipcLog \o <<[id |-> resolves[i].id, op |-> "writeFailed"],
                           [id |-> resolves[i].id, op |-> "commit"]>>
  /\ resolves' = [resolves EXCEPT ![i].at = "commit"]
  /\ UNCHANGED <<theirsRows, oursRows, mergedRows, baseRows>>

\* the write rejected: the catch shows a toast and the call ends
writeRejected(i) ==
  /\ resolves[i].at = "resolveConflicts"
  /\ ipcLog' = Append(ipcLog, [id |-> resolves[i].id, op |-> "writeFailed"])
  /\ resolves' = RemoveAt(resolves, i)
  /\ UNCHANGED <<theirsRows, oursRows, mergedRows, baseRows>>

\* the commit resolved: toast, then onResolved()
commitResolved(i) ==
  /\ resolves[i].at = "commit"
  /\ ipcLog' = ipcLog \o <<[id |-> resolves[i].id, op |-> "committed"],
                           [id |-> resolves[i].id, op |-> "onResolved"]>>
  /\ resolves' = RemoveAt(resolves, i)
  /\ UNCHANGED <<theirsRows, oursRows, mergedRows, baseRows>>

commitRejected(i) ==
  /\ resolves[i].at = "commit"
  /\ ipcLog' = Append(ipcLog, [id |-> resolves[i].id, op |-> "commitFailed"])
  /\ resolves' = RemoveAt(resolves, i)
  /\ UNCHANGED <<theirsRows, oursRows, mergedRows, baseRows>>

\* the cells the merged pane renders: rowIdx from 1 below maxRows, colIdx
\* over the headers
PaneCells ==
  (1..(Max(Max(Len(theirsRows), Len(oursRows)), Len(mergedRows)) - 1))
    \X (0..(Len(IF mergedRows = <<>> THEN <<>> ELSE mergedRows[1]) - 1))

\* a handler of the resolver has run; the other components stand still
Resolver(op, edits) ==
  /\ last' = op
  /\ used' = [used EXCEPT !.edit = @ + edits]
  /\ UNCHANGED <<progVars, repoVars, diffVars, autoVars, pickVars,
                 synced, run, s0, s1, quiet>>

\* the T and O buttons, shown on a cell that has a conflict
AcceptTheirs ==
  /\ used.edit < MaxMergeEdits
  /\ \E o \in PaneCells :
       hasConflict(o[1], o[2]) /\ handleAccept(theirsRows, o[1], o[2])
  /\ Resolver("acceptTheirs", 1)

AcceptOurs ==
  /\ used.edit < MaxMergeEdits
  /\ \E o \in PaneCells :
       hasConflict(o[1], o[2]) /\ handleAccept(oursRows, o[1], o[2])
  /\ Resolver("acceptOurs", 1)

\* Accept All Theirs, Accept All Ours
AcceptAll ==
  /\ used.edit < MaxMergeEdits
  /\ \E side \in {theirsRows, oursRows} : handleAcceptAll(side)
  /\ Resolver("acceptAll", 1)

\* typing into a cell of the merged pane
EditMerged ==
  /\ used.edit < MaxMergeEdits
  /\ \E o \in PaneCells, v \in {"y", "z"} : handleEditMerged(o[1], o[2], v)
  /\ Resolver("editMerged", 1)

ResolveAndCommit ==
  /\ Cardinality({i \in 1..Len(ipcLog) : ipcLog[i].op = "resolveConflicts"}) < MaxResolves
  /\ handleResolveAndCommit
  /\ Resolver("resolveAndCommit", 0)

\* The tables a resolver is mounted with: columns k and v, a key and the
\* text x in each row of ours; theirs with as many rows or fewer or more,
\* with or without the column v, its text x or y; the base like ours with
\* the text x, y or w; the working table starts as a copy of one side.
MergeInputs ==
  LET header == <<"k", "v">>
      table(w, h, v) ==
        <<SubSeq(header, 1, w)>> \o
          [i \in 1..h |-> SubSeq(<<ToString(i), v>>, 1, w)]
  IN {[ours |-> table(2, ho, "x"),
       theirs |-> table(wt, ht, tv),
       base |-> table(2, ho, bv),
       pick |-> pick] :
        ho \in 0..MaxMergeRows, ht \in 0..MaxMergeRows, wt \in 1..2,
        tv \in {"x", "y"}, bv \in {"x", "y", "w"},
        pick \in {"ours", "theirs"}}

InitMerge ==
  /\ SheetIdle
  /\ AutoIdle
  /\ PickIdle
  /\ RepoIdle
  /\ DiffIdle
  /\ \E in \in MergeInputs :
       /\ theirsRows = in.theirs
       /\ oursRows = in.ours
       /\ baseRows = in.base
       /\ mergedRows = IF in.pick = "ours" THEN in.ours ELSE in.theirs
  /\ resolves = <<>>
  /\ ipcLog = <<>>

NextMerge ==
  \/ AcceptTheirs
  \/ AcceptOurs
  \/ AcceptAll
  \/ EditMerged
  \/ ResolveAndCommit
  \/ \E i \in 1..Len(resolves) : writeResolved(i) /\ Resolver("writeResolved", 0)
  \/ \E i \in 1..Len(resolves) : writeRejected(i) /\ Resolver("writeRejected", 0)
  \/ \E i \in 1..Len(resolves) : commitResolved(i) /\ Resolver("commitResolved", 0)
  \/ \E i \in 1..Len(resolves) : commitRejected(i) /\ Resolver("commitRejected", 0)

SpecMerge == InitMerge /\ [][NextMerge]_vars

\* ---------------------------------------------------------------- diff store

\* clicks on the commit list and on the buttons of compare mode in a run
MaxPicks == 4

\* the commits of the log
Commits == {"c1", "c2", "c3"}

toggleCompareMode ==
  IF isCompareMode
    THEN /\ isCompareMode' = FALSE
         /\ fromCommit' = Null
         /\ toCommit' = Null
         /\ diffResult' = <<>>
         /\ UNCHANGED <<isLoading, computes>>
    ELSE /\ isCompareMode' = TRUE
         /\ UNCHANGED <<fromCommit, toCommit, diffResult, isLoading, computes>>

selectCommit(hash) ==
  IF fromCommit = Null
    THEN /\ fromCommit' = hash
         /\ toCommit' = Null
         /\ diffResult' = <<>>
         /\ UNCHANGED <<isCompareMode, isLoading, computes>>
    ELSE /\ toCommit' = hash
         /\ UNCHANGED <<isCompareMode, fromCommit, diffResult, isLoading, computes>>

\* computeDiff up to its await: the two showFile calls are made for the
\* commits selected now
computeDiff(path) ==
  IF fromCommit = Null \/ toCommit = Null THEN UNCHANGED diffState
  ELSE /\ isLoading' = TRUE
       /\ computes' = Append(computes, [from |-> fromCommit, to |-> toCommit])
       /\ UNCHANGED <<isCompareMode, fromCommit, toCommit, diffResult>>

\* computeDiff after both showFile calls resolved: the diff of the two
\* texts, here the pair of commits they are the texts of, is installed
computeResolved(i) ==
  /\ diffResult' = << <<computes[i].from, computes[i].to>> >>
  /\ isLoading' = FALSE
  /\ computes' = RemoveAt(computes, i)
  /\ UNCHANGED <<isCompareMode, fromCommit, toCommit>>

\* computeDiff when a showFile call rejects: the catch block
computeRejected(i) ==
  /\ isLoading' = FALSE
  /\ computes' = RemoveAt(computes, i)
  /\ UNCHANGED <<isCompareMode, fromCommit, toCommit, diffResult>>

clearDiff ==
  /\ fromCommit' = Null
  /\ toCommit' = Null
  /\ diffResult' = <<>>
  /\ UNCHANGED <<isCompareMode, isLoading, computes>>

\* the effect of DiffViewer, run after a render in which one of its
\* dependencies differs from the last run, and after the viewer is mounted
effect ==
  /\ isCompareMode
  /\ deps # <<fromCommit, toCommit, filePath>>
  /\ deps' = <<fromCommit, toCommit, filePath>>
  /\ IF fromCommit # Null /\ toCommit # Null /\ filePath # Null
       THEN computeDiff(filePath)
       ELSE UNCHANGED diffState

\* a handler of compare mode has run after clicks of the user; App mounts
\* DiffViewer in compare mode only; the other components stand still
Picked(op, clicks) ==
  /\ last' = op
  /\ used' = [used EXCEPT !.event = @ + clicks]
  /\ deps' = IF op = "effect" THEN <<fromCommit, toCommit, filePath>>
             ELSE IF isCompareMode' THEN deps ELSE <<>>
  /\ UNCHANGED <<progVars, repoVars, diffVars, mergeVars, autoVars,
                 synced, run, s0, s1, quiet>>

\* A file is opened and commits are picked in compare mode.
NextPick ==
  \/ used.file = 0 /\ LoadFile
  \/ ReadOk
  \/ used.event < MaxPicks /\ toggleCompareMode /\ Picked("toggleCompareMode", 1)
  \/ /\ used.event < MaxPicks
     /\ isCompareMode
     /\ \E hash \in Commits : selectCommit(hash)
     /\ Picked("selectCommit", 1)
  \/ used.event < MaxPicks /\ isCompareMode /\ clearDiff /\ Picked("clearDiff", 1)
  \/ Len(computes) < MaxInFlight /\ effect /\ Picked("effect", 0)
  \/ \E i \in 1..Len(computes) : computeResolved(i) /\ Picked("computeResolved", 0)
  \/ \E i \in 1..Len(computes) : computeRejected(i) /\ Picked("computeRejected", 0)

SpecPick == Init /\ [][NextPick]_vars

\* ------------------------------------------------------------------ properties

\* C1: in every reachable state the undo stack holds at most MAX_UNDO (100)
\* snapshots; redo, which pushes without cutting, cannot exceed it because
\* the two stacks together hold at most MAX_UNDO.
C1_UndoStackBounded ==
  /\ Len(undoStack) <= MAX_UNDO
  /\ Len(undoStack) + Len(redoStack) <= MAX_UNDO

\* an edit has run on a full stack, which is full again
C1_Witness ==
  /\ last = "edit"
  /\ run.edits > MAX_UNDO
  /\ Len(undoStack) = MAX_UNDO

\* C2: after N consecutive edits from the table s0, 1 <= N <= 100, N calls of
\* undo make the table s0 again, and one redo after them makes it s1, the
\* table the first edit had produced.
C2_UndoAllThenRedo ==
  (run.edits \in 1..MAX_UNDO /\ run.undos = run.edits /\ run.redos <= 1) =>
    current = (IF run.redos = 0 THEN s0 ELSE s1)

\* 100 edits, 100 undos and one redo have run
C2_Witness ==
  /\ run.edits = MAX_UNDO
  /\ run.undos = MAX_UNDO
  /\ run.redos = 1
  /\ last = "redo"
  /\ current = s1
  /\ s1 # s0

\* C8: after 101 consecutive edits the oldest snapshot is gone: the 101st
\* undo changes nothing and leaves the table after edit 1, not the original.
C8_OldestDiscarded ==
  [][(/\ run.edits = MAX_UNDO + 1
      /\ run.undos = MAX_UNDO
      /\ run'.undos = MAX_UNDO + 1)
     => (/\ UNCHANGED progVars
         /\ current' = s1
         /\ current' # s0)]_vars

\* 101 edits and 101 undos have run
C8_Witness ==
  /\ run.edits = MAX_UNDO + 1
  /\ run.undos = MAX_UNDO + 1
  /\ run.redos = 0
  /\ last = "undo"
  /\ current = s1
  /\ current # s0

\* C3: once an edit has followed an undo the redo stack is empty, and every
\* redo called from then on, until the next undo, leaves the store as it is.
C3_EditAfterUndoDropsRedo ==
  [][/\ run'.phase = "branch" => redoStack' = <<>>
     /\ (run.phase = "branch" /\ last' = "redo") => UNCHANGED progVars]_vars

\* an undo, then an edit, then a redo have run
C3_Witness ==
  /\ run.phase = "branch"
  /\ last = "redo"
  /\ undoStack # <<>>
  /\ filePath # Null

\* C4: a reload the file watcher has started replaces the table only while the
\* store is clean.
C4_ReloadOnlyWhenClean == [][last' = "reload" => ~isDirty]_vars

\* C5: at most one writeCsv call is in flight.
C5_OneSaveInFlight == Len(writes) <= 1

\* C6: when writeCsv rejects, the table and both stacks stay as they are, a
\* dirty store stays dirty, and isSaving is false again.
C6_FailedSaveKeepsEdits ==
  [][last' = "writeFail" =>
       /\ UNCHANGED <<columns, rows, undoStack, redoStack, isDirty, filePath,
                      lastSavedAt>>
       /\ isSaving' = FALSE]_vars

\* a save of an edited table has failed
C6_Witness ==
  /\ last = "writeFail"
  /\ isDirty
  /\ ~isSaving
  /\ undoStack # <<>>
  /\ current # synced

\* C7: every edit call, and every move call that changes the order, ends
\* with the table of before the call on top of the undo stack, the redo
\* stack empty and the store dirty.
C7_EditPushesSnapshot ==
  [][(\/ last' \in EditCalls
      \/ last' \in MoveCalls /\ current' # current)
     => (/\ undoStack' # <<>>
         /\ undoStack'[Len(undoStack')] = current
         /\ redoStack' = <<>>
         /\ isDirty')]_vars

\* a column drag has changed the order after an undo
C7_Witness ==
  /\ last = "reorderColumns"
  /\ run.phase = "branch"
  /\ undoStack # <<>>
  /\ undoStack[Len(undoStack)] # current
  /\ redoStack = <<>>
  /\ isDirty

\* C9: undo on an empty undo stack and redo on an empty redo stack change no
\* field of the store.
C9_EmptyStackNoOp ==
  [][(\/ last' = "undo" /\ undoStack = <<>>
      \/ last' = "redo" /\ redoStack = <<>>)
     => UNCHANGED progVars]_vars

\* undo has been called on a clean store with a file open, which is still clean
C9_Witness ==
  /\ last = "undo"
  /\ filePath # Null
  /\ ~isDirty
  /\ lastSavedAt # Null

\* a write of the table as it is now is in flight
SavingCurrent ==
  \E i \in 1..Len(writes) :
    writes[i] = [path |-> filePath, columns |-> columns, rows |-> rows]

\* C10: an undo or a redo that restores a snapshot marks the store dirty and,
\* with a file open, arms the auto-save timer; a save of the table is then
\* issued, unless the file is closed first.
C10_RestoreIsSaved ==
  /\ [][(\/ last' = "undo" /\ undoStack # <<>>
         \/ last' = "redo" /\ redoStack # <<>>)
        => (isDirty' /\ (filePath # Null => timerPending'))]_vars
  /\ (last \in {"undo", "redo"} /\ isDirty /\ filePath # Null)
       ~> (SavingCurrent \/ filePath = Null)

\* an undo has restored the table that was saved last
C10_Witness ==
  /\ last = "undo"
  /\ isDirty
  /\ timerPending
  /\ filePath # Null
  /\ lastSavedAt # Null
  /\ redoStack # <<>>
  /\ current = synced

\* C11: at most one auto-save timer is pending; every change of the store
\* that leaves it dirty with a file open clears the pending timer and arms a
\* new one; and when a timer's callback starts a save, the full delay has
\* passed since the latest edit, undo or redo.
C11_Debounced ==
  [][/\ Len(timers') <= 1
     /\ (storeVars' # storeVars /\ isDirty' /\ filePath' # Null)
          => (timers' = <<0>> /\ timerRef' = "pending")
     /\ (last' = "timerFire" /\ Len(writes') > Len(writes))
          => quiet = AUTO_SAVE_DELAY_MS]_vars

\* after two edits the timer has started a save, whose own set() armed the
\* next timer
C11_Witness ==
  /\ last = "timerFire"
  /\ Len(writes) = 1
  /\ timers = <<0>>
  /\ quiet = AUTO_SAVE_DELAY_MS
  /\ used.edit >= 2

\* C12: when a write fails and leaves the store dirty with a file open, a
\* timer is pending right away with no call of the user, and a timer's
\* callback issues a further save, unless the file is closed first.
C12_FailedSaveRetried ==
  /\ [][(last' = "writeFail" /\ isDirty' /\ filePath' # Null) => timerPending']_vars
  /\ (last = "writeFail" /\ isDirty /\ filePath # Null)
       ~> ((last = "timerFire" /\ writes # <<>>) \/ filePath = Null)

\* the only write in flight has failed on a dirty store
C12_Witness ==
  /\ last = "writeFail"
  /\ isDirty
  /\ filePath # Null
  /\ writes = <<>>
  /\ timerPending
  /\ lastSavedAt = Null

\* C13: when readCsv rejects, loadFile ends (rejected) with the store, the
\* timers and the writes in flight as they were; calling loadFile changes no
\* field before the read settles; and a read that resolves swaps in the whole
\* table read, its path, a clean flag and empty stacks.
C13_LoadAllOrNothing ==
  [][/\ last' = "readFail" => UNCHANGED <<storeVars, timers, timerRef, writes>>
     /\ last' = "loadFile" => UNCHANGED <<storeVars, timers, timerRef, writes>>
     /\ last' \in {"readOk", "reload"} =>
          \E i \in 1..Len(reads) :
            /\ reads' = RemoveAt(reads, i)
            /\ filePath' = reads[i].path
            /\ current' = synced'
            /\ ~isDirty'
            /\ undoStack' = <<>>
            /\ redoStack' = <<>>]_vars

\* a load has failed on an edited table of an open file
C13_Witness ==
  /\ last = "readFail"
  /\ filePath # Null
  /\ isDirty
  /\ undoStack # <<>>
  /\ rows # <<>>

\* C14: save() with a file open calls writeCsv with the path, columns and
\* rows of that moment and changes nothing but isSaving; when the write
\* resolves isDirty and isSaving are false and lastSavedAt is set, the table,
\* the path and the stacks as they were; with no file open save() calls
\* nothing and changes nothing.
C14_SaveWritesCurrent ==
  [][/\ (last' = "save" /\ filePath # Null) =>
          /\ writes' = Append(writes, [path |-> filePath, columns |-> columns,
                                        rows |-> rows])
          /\ isSaving'
          /\ UNCHANGED <<columns, rows, filePath, isDirty, lastSavedAt,
                         undoStack, redoStack, reads>>
     /\ (last' = "save" /\ filePath = Null) => UNCHANGED progVars
     /\ last' = "writeOk" =>
          /\ ~isDirty'
          /\ ~isSaving'
          /\ lastSavedAt' # Null
          /\ \E i \in 1..Len(writes) :
               /\ writes' = RemoveAt(writes, i)
               /\ synced' = [columns |-> writes[i].columns, rows |-> writes[i].rows]
          /\ UNCHANGED <<columns, rows, filePath, undoStack, redoStack, reads>>]_vars

\* Ctrl+S has written an edited table, and the write has resolved
C14_Witness ==
  /\ last = "writeOk"
  /\ used.save = 1
  /\ used.edit >= 1
  /\ ~isDirty
  /\ ~isSaving
  /\ lastSavedAt # Null
  /\ undoStack # <<>>
  /\ current = synced
  /\ timers = <<>>

\* the snapshots of a stack
Snapshots(stack) == {stack[k] : k \in 1..Len(stack)}

\* C15: a load that succeeds and clearFile leave the store clean with both
\* stacks empty, and no step puts on a stack anything but the table current
\* before it: a table of a file open earlier is never on a stack, and an undo
\* or redo right after a load or clearFile changes nothing.
C15_HistoryEndsAtLoad ==
  [][/\ last' \in {"readOk", "reload", "clearFile"} =>
          (~isDirty' /\ undoStack' = <<>> /\ redoStack' = <<>>)
     /\ Snapshots(undoStack') \subseteq Snapshots(undoStack) \cup {current}
     /\ Snapshots(redoStack') \subseteq Snapshots(redoStack) \cup {current}
     /\ (last \in {"readOk", "reload", "clearFile"} /\ last' \in {"undo", "redo"})
          => UNCHANGED progVars]_vars

\* a file was edited, another load has succeeded, and undo was called
C15_Witness ==
  /\ last = "undo"
  /\ used.file = 2
  /\ used.edit >= 1
  /\ filePath # Null
  /\ ~isDirty
  /\ undoStack = <<>>
  /\ redoStack = <<>>

\* the fields of the columns are pairwise distinct
DistinctFields(cols) ==
  \A i, j \in 1..Len(cols) : cols[i].field = cols[j].field => i = j

\* C16: the column fields of the current table and of every snapshot on the
\* undo and redo stacks are pairwise distinct.
C16_FieldsDistinct ==
  /\ DistinctFields(columns)
  /\ \A k \in 1..Len(undoStack) : DistinctFields(undoStack[k].columns)
  /\ \A k \in 1..Len(redoStack) : DistinctFields(redoStack[k].columns)

\* the row is defined and has an entry for every column
CompleteRow(r, cols) ==
  /\ r # UndefRow
  /\ \A c \in 1..Len(cols) :
       cols[c] # UndefCol => r[KeyOf(cols[c].field)] \notin {Absent, Undef}

\* C17: every row of the current table is defined and has an entry for
\* every declared column.
C17_RowsComplete == \A i \in 1..Len(rows) : CompleteRow(rows[i], columns)

\* row?.[k]: the cell of a row under the key k, undefined for a row that is
\* itself undefined
CellOf(row, k) == IF row = UndefRow THEN Absent ELSE row[k]

\* C30: updateCell(r, f, v) with r a valid row index sets cell (r, f) to v
\* and leaves every other cell of every row, the number and order of the
\* rows, and the columns as they were.
C30_UpdateCellFrame ==
  [][\A r \in Indexes(rows), f \in Fields, v \in Vals :
       updateCell(r, f, v) =>
         /\ columns' = columns
         /\ Len(rows') = Len(rows)
         /\ rows'[r + 1][f] = v
         /\ \A k \in Keys \ {f} : rows'[r + 1][k] = CellOf(rows[r + 1], k)
         /\ \A i \in 1..Len(rows) : i # r + 1 => rows'[i] = rows[i]]_vars

\* updateCell has just changed one cell of a table of two rows and two
\* columns whose other cells hold text
C30_Witness ==
  /\ last = "updateCell"
  /\ undoStack # <<>>
  /\ Len(rows) = 2
  /\ Len(columns) = 2
  /\ undoStack[Len(undoStack)].rows # rows
  /\ \A i \in 1..2 : \A f \in Fields : rows[i][f] \in Vals \cup {""}
\* C29: starting from a duplicate-free recent list of at most MAX_RECENT
\* paths, after any successful openRepo and initRepo calls recentRepos has
\* at most MAX_RECENT entries, holds no path twice, and starts with the path
\* opened most recently; a call that fails leaves the list as it was.
C29_RecentList ==
  /\ [](/\ Len(recentRepos) <= MAX_RECENT
        /\ \A i, j \in 1..Len(recentRepos) :
             recentRepos[i] = recentRepos[j] => i = j
        /\ opened # Null => recentRepos # <<>> /\ recentRepos[1] = opened)
  /\ [][\A i \in 1..Len(opens) :
         openRejected(i) => recentRepos' = recentRepos]_vars

\* a full list has taken a path it did not hold and dropped its last one
C29_Witness ==
  /\ opened = "r11"
  /\ recentRepos = <<"r11">> \o SubSeq(FullList, 1, MAX_RECENT - 1)
  /\ isOpen
\* C23: the summary lists only the categories whose count is not zero, in
\* the order rows added, rows removed, cells modified, columns added,
\* columns removed; it is the no-changes text exactly when all five counts
\* are zero, and is never the empty string.
C23_Summary ==
  last = "buildSummary" =>
    LET counts == <<Len(structuredDiff.addedRows), Len(structuredDiff.removedRows),
                    Len(structuredDiff.modifiedCells),
                    Len(structuredDiff.addedColumns),
                    Len(structuredDiff.removedColumns)>>
        labels == <<"row(s) added", "row(s) removed", "cell(s) modified",
                    "column(s) added", "column(s) removed">>
        listed == Ascending({c \in 1..5 : counts[c] > 0})
    IN /\ summary # <<>>
       /\ summary = << <<"No changes detected">> >> <=> listed = <<>>
       /\ listed # <<>> =>
            /\ Len(summary) = Len(listed)
            /\ \A i \in 1..Len(listed) :
                 summary[i] = <<ToString(counts[listed[i]]), labels[listed[i]]>>

\* a summary of three categories, two of them left out
C23_Witness ==
  /\ last = "buildSummary"
  /\ Len(summary) = 3
  /\ structuredDiff.removedRows = <<>>
  /\ structuredDiff.addedColumns = <<>>
\* the rows of the alignment from one table and itself: all matched, the
\* cells alike
SameTable ==
  \A i \in 1..Len(alignment.rows) :
    /\ alignment.rows[i].kind = "matched"
    /\ alignment.rows[i].left = alignment.rows[i].right

\* C21: comparing a table with itself, whatever its column names and cell
\* texts, gives a structured diff whose five lists are all empty and the
\* no-changes summary.
C21_SelfCompareEmpty ==
  last = "compareCsv" /\ SameTable =>
    /\ structuredDiff = EmptyDiff
    /\ summary = << <<"No changes detected">> >>

\* the right table is the left one with one row appended after k rows
AppendedAfter(k) ==
  /\ Len(alignment.rows) = k + 1
  /\ alignment.rows[k + 1].kind = "inserted"
  /\ \A i \in 1..k :
       /\ alignment.rows[i].kind = "matched"
       /\ alignment.rows[i].left = alignment.rows[i].right

\* C22: when right is left with one row appended after k unchanged rows and
\* the columns are the same, the diff has addedRows = [k], nothing removed
\* or modified, no column changes, and the summary "1 row(s) added".
C22_AppendedRow ==
  \A k \in 0..MaxDiffRows :
    last = "compareCsv" /\ AppendedAfter(k) =>
      /\ structuredDiff = [EmptyDiff EXCEPT !.addedRows = <<k>>]
      /\ summary = << <<"1", "row(s) added">> >>

\* C24: modifiedCells has an entry for a position and a column exactly when
\* the row is matched and the cell's texts on the left and on the right
\* differ; its oldValue and newValue are those texts; a cell whose text is the
\* same on both sides has no entry, whatever characters it holds.
C24_ModifiedCells ==
  last = "compareCsv" =>
    LET entries == structuredDiff.modifiedCells
        differs(i, c) ==
          /\ alignment.rows[i].kind = "matched"
          /\ alignment.rows[i].left[c] # alignment.rows[i].right[c]
        at(e, i, c) == e.row = i - 1 /\ e.col = alignment.names[c]
    IN /\ \A i \in 1..Len(alignment.rows), c \in 1..Len(alignment.names) :
            differs(i, c) <=> \E j \in 1..Len(entries) : at(entries[j], i, c)
       /\ \A j \in 1..Len(entries) :
            \E i \in 1..Len(alignment.rows), c \in 1..Len(alignment.names) :
              /\ at(entries[j], i, c)
              /\ entries[j].oldValue = alignment.rows[i].left[c]
              /\ entries[j].newValue = alignment.rows[i].right[c]

\* C32: the positions in addedRows, in removedRows and in the row field of
\* modifiedCells count the rows of the alignment in order: a reported
\* position is the number of alignment rows before the row it reports,
\* which is inserted, deleted, or matched with a differing cell; no
\* position is in two of the three lists.
C32_PositionsCountAlignment ==
  last = "compareCsv" =>
    LET d == structuredDiff
        kindAt(p) ==
          IF p + 1 \in 1..Len(alignment.rows)
            THEN alignment.rows[p + 1].kind ELSE "none"
        added == {d.addedRows[i] : i \in 1..Len(d.addedRows)}
        removed == {d.removedRows[i] : i \in 1..Len(d.removedRows)}
        modified == {d.modifiedCells[i].row : i \in 1..Len(d.modifiedCells)}
    IN /\ \A p \in added : kindAt(p) = "inserted"
       /\ \A p \in removed : kindAt(p) = "deleted"
       /\ \A p \in modified :
            /\ kindAt(p) = "matched"
            /\ alignment.rows[p + 1].left # alignment.rows[p + 1].right
       /\ added \cap removed = {}
       /\ added \cap modified = {}
       /\ removed \cap modified = {}

\* C33: a cell with a conflict whose working value is still ours' value,
\* no accept button used and no value typed since the resolver was opened,
\* counts as unresolved.
C33_UntouchedIsUnresolved ==
  \A o \in PaneCells :
    (/\ used.edit = 0
     /\ hasConflict(o[1], o[2])
     /\ ValueAt(mergedRows, o[1], o[2]) = ValueAt(oursRows, o[1], o[2]))
      => ~isResolved(o[1], o[2])

\* C34: whenever the store is clean with a file open and no load in
\* flight, the table in memory is the one last written by save or read by
\* loadFile, also when an edit was made while a save was in flight.
C34_CleanMeansSynced ==
  (~isDirty /\ filePath # Null /\ reads = <<>>) => current = synced

\* C35: in every reachable state the undo stack and the redo stack together
\* hold at most MAX_UNDO (100) snapshots; an undo takes one snapshot off the
\* undo stack and puts one on the redo stack, a redo the other way round, so
\* neither changes how many the two stacks hold together.
C35_StacksTogetherBounded ==
  /\ [](Len(undoStack) + Len(redoStack) <= MAX_UNDO)
  /\ [][/\ (undo /\ last' = "undo" /\ undoStack # <<>>) =>
             (/\ Len(undoStack') = Len(undoStack) - 1
              /\ Len(redoStack') = Len(redoStack) + 1)
        /\ (redo /\ last' = "redo" /\ redoStack # <<>>) =>
             (/\ Len(redoStack') = Len(redoStack) - 1
              /\ Len(undoStack') = Len(undoStack) + 1)
        /\ (last' \in {"undo", "redo"}) =>
             (Len(undoStack') + Len(redoStack')
                = Len(undoStack) + Len(redoStack))]_vars

\* a redo has run after the undos of a run that had filled the undo stack:
\* the two stacks hold MAX_UNDO snapshots together
C35_Witness ==
  /\ last = "redo"
  /\ run.edits > MAX_UNDO
  /\ undoStack # <<>>
  /\ redoStack # <<>>
  /\ Len(undoStack) + Len(redoStack) = MAX_UNDO

\* C36: the auto-save timer starts a write only while the store is dirty:
\* when the timer callback calls writeCsv, isDirty is true.
C36_AutoSaveOnlyWhenDirty ==
  [][(last' = "timerFire" /\ Len(writes') > Len(writes)) => isDirty]_vars

\* the store is clean, no save is in flight, no timer is pending, and the
\* table in memory is the one last written or read
Settled ==
  /\ ~isDirty
  /\ ~isSaving
  /\ writes = <<>>
  /\ ~timerPending
  /\ current = synced

\* C37: when no write fails, then once the user has stopped (every run
\* has finitely many calls) and the timers have fired, the store with a file
\* open gets settled and stays so: clean, no save in flight, no timer
\* pending, the table in memory the one last written.
C37_SettlesWhenWritesSucceed ==
  [](last # "writeFail") => <>[](filePath = Null \/ Settled)

\* the two arrays hold the same elements, each as many times
SameElements(a, b) ==
  /\ Len(a) = Len(b)
  /\ \A i \in 1..Len(a) :
       Cardinality({j \in 1..Len(a) : a[j] = a[i]})
         = Cardinality({j \in 1..Len(b) : b[j] = a[i]})

\* C38: moveRow, moveColumn and reorderColumns only reorder, whatever their
\* arguments: after the call the table has the rows and the columns it had
\* before, each as many times, and every row has the cells it had.
C38_MovesOnlyReorder ==
  [][(last' \in MoveCalls) =>
       /\ SameElements(rows, rows')
       /\ SameElements(columns, columns')]_vars

\* C39: whenever diffResult is not null it is the diff of the commits
\* selected now, fromCommit and toCommit: a computeDiff that completes after
\* the selection was changed or cleared, or after compare mode was left,
\* does not install its result.
C39_ResultOfSelection ==
  diffResult # <<>> => diffResult = << <<fromCommit, toCommit>> >>

\* C40: loadFile was called for f1.csv and then, before that read had
\* completed, for f2.csv: once both reads have completed the store shows
\* f2.csv, whichever read finished first.
C40_LatestLoadShown ==
  (used.file = 2 /\ reads = <<>>) => filePath = "f2.csv"

\* C25: after a manual value is set on a conflicted cell, the cell counts
\* as resolved, even when the value is neither ours' nor theirs'.
C25_ManualCountsResolved ==
  [][\A r \in {o[1] : o \in PaneCells}, c \in {o[2] : o \in PaneCells}, v \in {"y", "z"} :
       /\ r < Len(mergedRows)
       /\ hasConflict(r, c)
       /\ handleEditMerged(r, c, v)
       => isResolved(r, c)']_vars

\* the working table but for the cell (rowIdx, colIdx) is as it was, and
\* so are its dimensions
OtherCellsKept(rowIdx, colIdx) ==
  /\ Len(mergedRows') = Len(mergedRows)
  /\ \A i \in 1..Len(mergedRows) :
       /\ Len(mergedRows'[i]) = Len(mergedRows[i])
       /\ \A j \in 1..Len(mergedRows[i]) :
            <<i, j>> # <<rowIdx + 1, colIdx + 1>> =>
              mergedRows'[i][j] = mergedRows[i][j]

C27_ConflictNeedsBothChanged ==
  \A r \in {o[1] : o \in PaneCells}, c \in {o[2] : o \in PaneCells} :
    hasConflict(r, c) =>
      /\ ValueAt(oursRows, r, c) # ValueAt(baseRows, r, c)
      /\ ValueAt(theirsRows, r, c) # ValueAt(baseRows, r, c)
      /\ ValueAt(oursRows, r, c) # ValueAt(theirsRows, r, c)

\* what the log holds for the call id: op, before line j
LoggedBefore(id, op, j) ==
  \E i \in 1..(j - 1) : ipcLog[i] = [id |-> id, op |-> op]

\* C28: no accept, accept-all or manual edit writes anything outside
\* memory; only Resolve & Commit writes the resolved file and commits, the
\* write first; no commit is issued when the write fails, and onResolved is
\* called only after both have succeeded.
C28_WriteThenCommit ==
  /\ [][last' \in {"acceptTheirs", "acceptOurs", "acceptAll", "editMerged"}
          => ipcLog' = ipcLog /\ resolves' = resolves]_vars
  /\ [](\A j \in 1..Len(ipcLog) :
          /\ ipcLog[j].op \in {"written", "writeFailed"} =>
               LoggedBefore(ipcLog[j].id, "resolveConflicts", j)
          /\ ipcLog[j].op = "commit" =>
               /\ LoggedBefore(ipcLog[j].id, "written", j)
               /\ ~LoggedBefore(ipcLog[j].id, "writeFailed", j)
          /\ ipcLog[j].op = "onResolved" =>
               /\ LoggedBefore(ipcLog[j].id, "written", j)
               /\ LoggedBefore(ipcLog[j].id, "committed", j))

\* after an edit in memory, a call has written, committed and reported
C28_Witness ==
  /\ \E j \in 1..Len(ipcLog) : ipcLog[j].op = "onResolved"
  /\ used.edit > 0
  /\ resolves = <<>>
\* a git call of the given kind
GitCall(op, files) == [op |-> op, files |-> files]

====
